---- MODULE Spec2Model ----
(***************************************************************************)
(* github-issues-export: one export invocation (USAGE line 1,              *)
(* `github-issues-export [options] <query>`) as a state machine.           *)
(*                                                                         *)
(* Strings are sequences of one-character strings.  A response body is     *)
(* either raw bytes, [raw |-> <<b1, ..., bn>>] with each b in 0..255, or   *)
(* the UTF-8 text of a JSON document, [doc |-> shape, value |-> v].  The   *)
(* remote API and the file system are the environment: the remote answers  *)
(* a request with the document of its repository or with a deviating       *)
(* response, and the file system may refuse a creation or a write.         *)
(*                                                                         *)
(* Left out: --help and --version (they print and exit before any step),   *)
(* failures of the reactor, TLS and template set-up (main.rs:264-275 and   *)
(* 307), which end run before the first request or before mkdir, and the   *)
(* panic of Uri::from_str on an unparsable URL (main.rs:80).               *)
(***************************************************************************)
EXTENDS Integers, Sequences, FiniteSets, TLC

\* ------------------------------------------------------------------ bounds
\* Length of the longest query string enumerated for parse_args.
MaxQueryLen == 5
\* Length of the issue list of the large repository (the fan-out width).
MaxIssues == 9
\* Length of the issue lists enumerated over the issue pool.
MaxSmallRepo == 2
\* Length of the longest raw (non-JSON) response body.
MaxBodyLen == 1
\* Number of consecutive export runs into the same output directory.
MaxRuns == 2

\* ------------------------------------------------------------- text helpers
None == "None"

\* Option<T>.
NoneOpt == [some |-> FALSE]
Some(v) == [some |-> TRUE, value |-> v]

DigitSeq == <<"0", "1", "2", "3", "4", "5", "6", "7", "8", "9">>
LowerSeq == <<"a", "b", "c", "d", "e", "f", "g", "h", "i", "j", "k", "l", "m",
              "n", "o", "p", "q", "r", "s", "t", "u", "v", "w", "x", "y", "z">>
UpperSeq == <<"A", "B", "C", "D", "E", "F", "G", "H", "I", "J", "K", "L", "M",
              "N", "O", "P", "Q", "R", "S", "T", "U", "V", "W", "X", "Y", "Z">>

Range(s) == {s[i] : i \in DOMAIN s}
IndexOf(s, c) == CHOOSE i \in DOMAIN s : s[i] = c

\* All sequences over alphabet A of length at most n.
SeqsUpTo(A, n) == UNION {[1..k -> A] : k \in 0..n}

\* str::split(sep): the parts between separators; always at least one part.
Split(s, sep) ==
    LET RECURSIVE go(_, _, _)
        go(i, cur, acc) ==
            IF i > Len(s) THEN Append(acc, cur)
            ELSE IF s[i] = sep THEN go(i + 1, <<>>, Append(acc, cur))
            ELSE go(i + 1, Append(cur, s[i]), acc)
    IN go(1, <<>>, <<>>)

\* str::parse::<usize>(): an optional leading "+", then one or more decimal
\* digits.  (Values stay far below usize::MAX within MaxQueryLen.)
parse_usize(s) ==
    LET body == IF Len(s) > 0 /\ s[1] = "+" THEN Tail(s) ELSE s
        RECURSIVE val(_, _)
        val(i, acc) ==
            IF i > Len(body) THEN acc
            ELSE val(i + 1, acc * 10 + (IndexOf(DigitSeq, body[i]) - 1))
    IN IF Len(body) = 0 \/ \E i \in DOMAIN body : body[i] \notin Range(DigitSeq)
       THEN [ok |-> FALSE]
       ELSE [ok |-> TRUE, value |-> val(1, 0)]

\* Decimal digits of n, as Display for integers prints them.
RECURSIVE Decimal(_)
Decimal(n) ==
    IF n < 10 THEN <<DigitSeq[n + 1]>>
    ELSE Append(Decimal(n \div 10), DigitSeq[(n % 10) + 1])

\* format!("{:03}", n): zero-padded on the left to a width of at least 3.
RECURSIVE PadZero(_, _)
PadZero(s, width) == IF Len(s) >= width THEN s ELSE PadZero(<<"0">> \o s, width)

\* slug::slugify on ASCII input: letters are lowercased, digits kept, every
\* run of other characters becomes one "-", no "-" at either end.
slugify(s) ==
    LET RECURSIVE go(_, _, _)
        go(i, out, prev_is_dash) ==
            IF i > Len(s) THEN out
            ELSE IF s[i] \in Range(LowerSeq) \/ s[i] \in Range(DigitSeq)
                 THEN go(i + 1, Append(out, s[i]), FALSE)
            ELSE IF s[i] \in Range(UpperSeq)
                 THEN go(i + 1, Append(out, LowerSeq[IndexOf(UpperSeq, s[i])]), FALSE)
            ELSE IF prev_is_dash THEN go(i + 1, out, TRUE)
            ELSE go(i + 1, Append(out, "-"), TRUE)
        raw == go(1, <<>>, TRUE)
    IN IF Len(raw) > 0 /\ raw[Len(raw)] = "-" THEN SubSeq(raw, 1, Len(raw) - 1) ELSE raw

\* ------------------------------------------------------------------- errors
\* errors::Error: the kind (ErrorKind::Request or a foreign link), the text a
\* Request error carries or the io::ErrorKind of an Io error, and whether
\* chain_err wrapped it ("Could not parse response from server").
Err(kind, detail) == [ok |-> FALSE, kind |-> kind, detail |-> detail, chained |-> FALSE]
ChainErr(e) == [e EXCEPT !.chained = TRUE]
Ok(v) == [ok |-> TRUE, value |-> v]

\* -------------------------------------------------------------- Github::get
IsDoc(chunk) == "doc" \in DOMAIN chunk

\* Length of the UTF-8 sequence a leading byte announces (0: not a leading byte).
Utf8Width(b) ==
    IF b < 128 THEN 1
    ELSE IF b >= 194 /\ b <= 223 THEN 2
    ELSE IF b >= 224 /\ b <= 239 THEN 3
    ELSE IF b >= 240 /\ b <= 244 THEN 4
    ELSE 0

IsCont(b) == b >= 128 /\ b <= 191

\* Range allowed for the second byte of a multi-byte sequence (rejects overlong
\* forms, surrogates and code points above U+10FFFF).
SecondOk(lead, b) ==
    IF lead = 224 THEN b >= 160 /\ b <= 191
    ELSE IF lead = 237 THEN b >= 128 /\ b <= 159
    ELSE IF lead = 240 THEN b >= 144 /\ b <= 191
    ELSE IF lead = 244 THEN b >= 128 /\ b <= 143
    ELSE IsCont(b)

\* std::str::from_utf8 validity of a raw byte sequence.
ValidUtf8(bytes) ==
    LET RECURSIVE go(_)
        go(i) ==
            IF i > Len(bytes) THEN TRUE
            ELSE LET w == Utf8Width(bytes[i]) IN
                 /\ w > 0
                 /\ i + w - 1 <= Len(bytes)
                 /\ w >= 2 => SecondOk(bytes[i], bytes[i + 1])
                 /\ \A k \in 2..(w - 1) : IsCont(bytes[i + k])
                 /\ go(i + w)
    IN go(1)

\* ::std::str::from_utf8(&chunk): the text of the body, or Utf8Error.  The text
\* of a JSON document is valid UTF-8.
from_utf8(chunk) ==
    IF IsDoc(chunk) \/ ValidUtf8(chunk.raw) THEN Ok(chunk) ELSE Err("Utf8", None)

\* ::serde_json::from_slice::<T>(&chunk): the value when the body is a JSON
\* document of T's shape, a Json error otherwise.
from_slice(chunk, T) ==
    IF IsDoc(chunk) /\ chunk.doc = T THEN Ok(chunk.value) ELSE Err("Json", None)

\* StatusCode::is_success: 2xx.
is_success(status_code) == status_code >= 200 /\ status_code <= 299

\* Github::get::<T> applied to what the transport delivers: a transport
\* failure, or a status code with the concatenated body.
get(resp, T) ==
    IF resp.transport_error THEN Err("Hyper", None)
    ELSE IF ~is_success(resp.status)
         THEN LET text == from_utf8(resp.chunk) IN
              IF ~text.ok THEN text ELSE Err("Request", text.value)
    ELSE LET value == from_slice(resp.chunk, T) IN
         IF ~value.ok THEN ChainErr(value) ELSE Ok(value.value)

\* -------------------------------------------------------------- parse_args
\* Docopt's decoding of --state into the enum State; anything else is a usage
\* error (Docopt error, e.exit()).
DocoptState(raw) ==
    IF raw = "open" THEN Ok("Open")
    ELSE IF raw = "closed" THEN Ok("Closed")
    ELSE IF raw = "all" THEN Ok("All")
    ELSE Err("Docopt", None)

\* impl fmt::Display for State.
StateDisplay(state) ==
    IF state = "Open" THEN "open" ELSE IF state = "Closed" THEN "closed" ELSE "all"

Exit(code) == [exit |-> TRUE, code |-> code]

\* parse_args on the command line argv = [query, state, token]: either the
\* process exits with a code, or the Args are returned.
parse_args(argv) ==
    LET flag_state == DocoptState(argv.state)
        parts == Split(argv.query, "/")
        sub == Split(parts[2], "#")
        number == parse_usize(sub[2])
        args(issue) == [exit |-> FALSE,
                        args |-> [env_token |-> argv.token,
                                  arg_username |-> parts[1],
                                  arg_repo |-> sub[1],
                                  arg_issue |-> issue,
                                  flag_state |-> flag_state.value]]
    IN IF ~flag_state.ok THEN Exit(1)
       ELSE IF argv.token = None THEN Exit(1)
       ELSE IF Len(parts) # 2 THEN Exit(1)
       ELSE IF Len(sub) = 1 THEN args(NoneOpt)
       ELSE IF Len(sub) = 2
            THEN IF number.ok THEN args(Some(number.value)) ELSE Exit(1)
       ELSE Exit(1)

\* ------------------------------------------------------- Github::issue(s)
API_ENDPOINT == <<"https://api.github.com">>

\* format!("{}/repos/{owner}/{repo}/issues/{number}", ...): the pieces of the
\* formatted URL, in order.
issue(user, repo, number) ==
    [url |-> <<API_ENDPOINT, "/repos/", user, "/", repo, "/issues/", Decimal(number)>>,
     T |-> "Issue"]

\* format!("{}/repos/{}/{}/issues?state={}", ...).
issues(user, repo, state) ==
    [url |-> <<API_ENDPOINT, "/repos/", user, "/", repo, "/issues?state=", StateDisplay(state)>>,
     T |-> "VecIssue"]

\* The always-list variant of fut_issues (ignores the issue number).
fut_issues_list_only(args) ==
    issues(args.arg_username, args.arg_repo, args.flag_state)

\* run: the request that resolves the issue set.
fut_issues(args) ==
    IF args.arg_issue.some
    THEN issue(args.arg_username, args.arg_repo, args.arg_issue.value)
    ELSE issues(args.arg_username, args.arg_repo, args.flag_state)

\* .map(|issue| vec![issue]) for the single issue, the list as it is otherwise.
resolved_issues(args, value) == IF args.arg_issue.some THEN <<value>> ELSE value

\* ------------------------------------------------------------ the fan-out
\* An element of join_all: still pending, or done with its value.
Pending == [done |-> FALSE]
Done(v) == [done |-> TRUE, value |-> v]

\* join_all variant that stores a completed result in the first slot that is
\* still pending (completion order instead of the element's own slot).
join_all_completion_order(slots, i, result) ==
    LET k == CHOOSE j \in DOMAIN slots :
                 ~slots[j].done /\ \A h \in 1..(j - 1) : slots[h].done
        filled == [slots EXCEPT ![k] = Done(result.value)]
    IN IF ~result.ok THEN [state |-> "err", error |-> result]
       ELSE IF \E j \in DOMAIN filled : ~filled[j].done
            THEN [state |-> "pending", slots |-> filled]
       ELSE [state |-> "ready", slots |-> filled]

\* join_all variant that replaces a failed element by an empty comment list.
join_all_skip_failed(slots, i, result) ==
    LET filled == [slots EXCEPT ![i] = Done(IF result.ok THEN result.value ELSE <<>>)]
    IN IF \E j \in DOMAIN filled : ~filled[j].done
       THEN [state |-> "pending", slots |-> filled]
       ELSE [state |-> "ready", slots |-> filled]

\* future::join_all over Future::join(ok(issue), get(comments_url)): element i
\* completes with `result`.  An error of any element is the error of the whole;
\* otherwise the value is kept in slot i, and the join is ready when no element
\* is pending.
join_all(slots, i, result) ==
    LET filled == [slots EXCEPT ![i] = Done(result.value)]
    IN IF ~result.ok THEN [state |-> "err", error |-> result]
       ELSE IF \E j \in DOMAIN filled : ~filled[j].done
            THEN [state |-> "pending", slots |-> filled]
       ELSE [state |-> "ready", slots |-> filled]

\* model::IssueWithComments, built by the map over the joined pairs.
IssueWithComments(issue_, comments) == [issue |-> issue_, comments |-> comments]

\* ------------------------------------------------------------- file system
\* The output path (--path) is in one of these conditions: its parent is
\* missing, its parent refuses the creation, nothing is there, a directory
\* is there, or a regular file is there.
Targets == {"noparent", "denied", "absent", "dir", "file"}

\* std::fs::create_dir(path): fails with AlreadyExists when the path exists,
\* whatever is there.
create_dir(target) ==
    IF target = "absent" THEN [ok |-> TRUE, target |-> "dir"]
    ELSE IF target \in {"dir", "file"} THEN Err("Io", "AlreadyExists")
    ELSE IF target = "noparent" THEN Err("Io", "NotFound")
    ELSE Err("Io", "PermissionDenied")

\* mkdir variant that returns every create_dir error.
mkdir_strict(target) == create_dir(target)

\* mkdir: create_dir, with AlreadyExists turned into success.
mkdir(target) ==
    LET made == create_dir(target)
    IN IF ~made.ok /\ made.detail # "AlreadyExists" THEN made
       ELSE [ok |-> TRUE, target |-> IF made.ok THEN made.target ELSE target]

\* The default of --path.
FlagPath == <<".", "/", "m", "d">>

\* issue_to_filename variant without the issue number.
issue_to_filename_no_number(path, issue_) ==
    path \o <<"/">> \o slugify(issue_.title) \o <<".", "m", "d">>

\* issue_to_filename: format!("{}/{:03}-{}.md", path, number, slugify(title)).
issue_to_filename(path, issue_) ==
    path \o <<"/">> \o PadZero(Decimal(issue_.number), 3) \o <<"-">>
         \o slugify(issue_.title) \o <<".", "m", "d">>

\* hb.render("issue", &data): the values the template substitutes, in the
\* template's order (title, state, then one block per comment).
render(data) == [title |-> data.issue.title, state |-> data.issue.state,
                 comments |-> data.comments]

PutFile(files, name, content) ==
    [n \in DOMAIN files \cup {name} |-> IF n = name THEN content ELSE files[n]]

\* What a failed write_all leaves in the created file.
Truncated == "truncated"

\* serialize: File::create creates or truncates the file (it needs the
\* directory), then write_all writes the rendered text.  `fault` is what the
\* storage does: "none", "create" (the creation is refused) or "write" (the
\* write fails after the file was created).
serialize(target, files, data, fault) ==
    LET md == render(data)
        filename == issue_to_filename(FlagPath, data.issue)
    IN IF target # "dir"
       THEN [result |-> Err("Io", "NotADirectory"), files |-> files, created |-> <<>>]
       ELSE IF fault = "create"
       THEN [result |-> Err("Io", "PermissionDenied"), files |-> files, created |-> <<>>]
       ELSE IF fault = "write"
       THEN [result |-> Err("Io", "Other"),
             files |-> PutFile(files, filename, Truncated), created |-> <<filename>>]
       ELSE [result |-> Ok(None),
             files |-> PutFile(files, filename, md), created |-> <<filename>>]

\* ------------------------------------------------------- the remote API
\* The repository the remote hosts, and the only one it knows.
HostedOwner == <<"a">>
HostedRepo == <<"a">>

Title1 == <<"F", "o", "u", "n", "d", " ", "a", " ", "b", "u", "g">>
Title2 == <<"f", "o", "u", "n", "d", "-", "-", "a", " ", "B", "U", "G", "!">>
Title3 == <<"!", "!", "!">>

Issue(number, title, state, comments_url) ==
    [number |-> number, title |-> title, state |-> state,
     comments_url |-> <<API_ENDPOINT, "/comments/", Decimal(comments_url)>>]

\* Issues a small repository is made of: equal slugs under different numbers
\* (one of four digits), and one number used twice with equal slugs.
IssuePool ==
    {Issue(1, Title1, "open", 1), Issue(1000, Title2, "closed", 2),
     Issue(1, Title2, "open", 3)}

SmallRepos == SeqsUpTo(IssuePool, MaxSmallRepo)

\* A repository of n issues numbered 1..n; the titles repeat, and every other
\* one has an empty slug.
BigRepo(n) ==
    [k \in 1..n |-> Issue(k, IF k % 2 = 1 THEN Title1 ELSE Title3,
                          IF k % 3 = 0 THEN "closed" ELSE "open", 10 + k)]

\* The comments the remote holds under a comments URL, newest first.
RemoteComments(url) ==
    LET k == parse_usize(url[3]).value
        n == k % 3
    IN [i \in 1..n |-> [id |-> 10 * k + (n - i)]]

Response(status, chunk) == [transport_error |-> FALSE, status |-> status, chunk |-> chunk]
Document(shape, value) == [doc |-> shape, value |-> value]
NotFound == Response(404, Document("Message", [message |-> "Not Found"]))

\* The remote's answer to a request, given the repository it hosts.
Proper(repo, url) ==
    IF url[2] = "/comments/"
    THEN Response(200, Document("VecComment", RemoteComments(url)))
    ELSE IF url[3] # HostedOwner \/ url[5] # HostedRepo THEN NotFound
    ELSE IF url[6] = "/issues?state="
    THEN Response(200, Document("VecIssue",
             SelectSeq(repo, LAMBDA i : url[7] = "all" \/ i.state = url[7])))
    ELSE LET n == parse_usize(url[7]).value
             hits == SelectSeq(repo, LAMBDA i : i.number = n)
         IN IF Len(hits) = 0 THEN NotFound
            ELSE Response(200, Document("Issue", hits[1]))

\* Bytes of raw bodies: the two bytes of U+00E9 (valid UTF-8 only as the pair,
\* in that order).
ByteSet == {195, 169}

\* Answers other than the proper one: a transport failure, or a status with a
\* raw body or with a JSON document of another shape.
Deviations ==
    {[transport_error |-> TRUE]}
    \cup {Response(status, chunk) :
            status \in {200, 404},
            chunk \in {[raw |-> b] : b \in SeqsUpTo(ByteSet, MaxBodyLen)}
                      \cup {Document("Message", [message |-> "Server Error"])}}

\* ------------------------------------------------------------------ state
VARIABLES
    argv,       \* the command line and environment: [query, state, token]
    repo,       \* the issues of the repository the remote hosts
    target,     \* condition of the output path, see Targets
    files,      \* the files under the output path: name -> content
    pc,         \* position of run: start, resolve, fanout, mkdir, write, exit
    args,       \* Args returned by parse_args
    requests,   \* the URLs requested so far in this run, in order
    issue_vec,  \* the issues the first request resolved to
    slots,      \* join_all's elements: Pending or Done with the comments fetched
    cursor,     \* index of the next aggregate the write loop serializes
    written,    \* the files created so far in this run, in order
    exit,       \* process exit status, None while running
    error,      \* the Result of run so far: Ok, or the Err it returned
    failed,     \* the steps of this run whose operation failed
    deviated,   \* the environment deviated in this run (remote or storage)
    lastGet,    \* the last response given to get, with T and get's result (or <<>>)
    run,        \* number of the current run into the output path
    snapshot    \* files and target as they were when this run started

vars == <<argv, repo, target, files, pc, args, requests, issue_vec, slots, cursor,
          written, exit, error, failed, deviated, lastGet, run, snapshot>>

Argv(query, state, token) == [query |-> query, state |-> state, token |-> token]
Query1 == <<"a", "/", "a">>
Query2 == <<"a", "/", "a", "#", "1">>
StaleFile == issue_to_filename(FlagPath, Issue(1, Title1, "open", 1))

\* The files found in the output path: one stale export when it is a directory.
InitialFiles(t) ==
    IF t = "dir" THEN [n \in {StaleFile} |-> "stale"] ELSE [n \in {} |-> "stale"]

InitRun ==
    /\ pc = "start" /\ args = None /\ requests = <<>> /\ issue_vec = <<>>
    /\ slots = <<>> /\ cursor = 0 /\ written = <<>> /\ exit = None
    /\ error = Ok(None) /\ failed = {} /\ deviated = FALSE /\ lastGet = <<>>
    /\ run = 1 /\ snapshot = [files |-> files, target |-> target]

\* Every query string over a small alphabet, against one small repository.
InitQueries ==
    /\ argv \in {Argv(q, "open", "token") :
                    q \in SeqsUpTo({"a", "/", "#", "1"}, MaxQueryLen)}
               \cup {Argv(Query1, s, t) : s \in {"open", "bogus"}, t \in {"token", None}}
    /\ repo = <<Issue(1, Title1, "open", 1)>>
    /\ target = "absent"

\* Small repositories, every output path condition, every --state.
InitSmall ==
    /\ argv \in {Argv(q, s, "token") : q \in {Query1, Query2},
                                        s \in {"open", "closed", "all"}}
    /\ repo \in SmallRepos
    /\ target \in Targets

\* The large repository: more issues than any fixed small pool.
InitBig ==
    /\ argv = Argv(Query1, "all", "token")
    /\ repo = BigRepo(MaxIssues)
    /\ target = "absent"

Init ==
    /\ InitQueries \/ InitSmall \/ InitBig
    /\ files = InitialFiles(target)
    /\ InitRun

\* ---------------------------------------------------------------- actions
Fail(step, err) ==
    /\ pc' = "exit" /\ exit' = 1 /\ error' = err /\ failed' = failed \cup {step}

\* run, up to core.run: parse_args (which may exit the process), then the
\* request that resolves the issue set is sent.
Start ==
    /\ pc = "start"
    /\ LET parsed == parse_args(argv) IN
       IF parsed.exit
       THEN /\ pc' = "exit" /\ exit' = parsed.code /\ failed' = failed \cup {"args"}
            /\ UNCHANGED <<args, requests, error>>
       ELSE /\ args' = parsed.args
            /\ requests' = <<fut_issues(parsed.args).url>>
            /\ pc' = "resolve"
            /\ UNCHANGED <<exit, error, failed>>
    /\ UNCHANGED <<argv, repo, target, files, issue_vec, slots, cursor, written,
                   deviated, lastGet, run, snapshot>>

\* The answer to the first request arrives.  On success the and_then closure
\* builds join_all, which starts the comment request of every issue.
ResolveResponse ==
    /\ pc = "resolve"
    /\ \E deviates \in BOOLEAN :
       \E resp \in IF deviates THEN Deviations ELSE {Proper(repo, requests[1])} :
        LET T == fut_issues(args).T
            result == get(resp, T)
            vec == resolved_issues(args, result.value)
        IN /\ lastGet' = <<[resp |-> resp, T |-> T, result |-> result]>>
           /\ deviated' = (deviated \/ deviates)
           /\ IF ~result.ok
              THEN /\ Fail("resolve", result)
                   /\ UNCHANGED <<issue_vec, requests, slots>>
              ELSE /\ issue_vec' = vec
                   /\ requests' = requests \o [k \in 1..Len(vec) |-> vec[k].comments_url]
                   /\ slots' = [k \in 1..Len(vec) |-> Pending]
                   /\ pc' = IF Len(vec) = 0 THEN "mkdir" ELSE "fanout"
                   /\ UNCHANGED <<exit, error, failed>>
    /\ UNCHANGED <<argv, repo, target, files, args, cursor, written, run, snapshot>>

\* The answer to the comment request of issue i arrives.
CommentResponse(i) ==
    /\ pc = "fanout"
    /\ i \in DOMAIN slots /\ ~slots[i].done
    /\ \E deviates \in BOOLEAN :
       \E resp \in IF deviates THEN Deviations
                   ELSE {Proper(repo, issue_vec[i].comments_url)} :
        LET result == get(resp, "VecComment")
            joined == join_all(slots, i, result)
        IN /\ lastGet' = <<[resp |-> resp, T |-> "VecComment", result |-> result]>>
           /\ deviated' = (deviated \/ deviates)
           /\ IF joined.state = "err"
              THEN /\ Fail("comments", joined.error)
                   /\ slots' = <<>>
              ELSE /\ slots' = joined.slots
                   /\ pc' = IF joined.state = "ready" THEN "mkdir" ELSE "fanout"
                   /\ failed' = IF result.ok THEN failed ELSE failed \cup {"comments"}
                   /\ UNCHANGED <<exit, error>>
    /\ UNCHANGED <<argv, repo, target, files, args, requests, issue_vec, cursor,
                   written, run, snapshot>>

\* run after core.run returned the aggregates: mkdir(&args.flag_path)?, then
\* the write loop (which ends at once over no aggregates).
Mkdir ==
    /\ pc = "mkdir"
    /\ LET made == mkdir(target) IN
       IF ~made.ok
       THEN /\ Fail("mkdir", made)
            /\ UNCHANGED <<target, cursor>>
       ELSE /\ target' = made.target
            /\ cursor' = 1
            /\ IF Len(issue_vec) = 0
               THEN pc' = "exit" /\ exit' = 0
               ELSE pc' = "write" /\ exit' = exit
            /\ UNCHANGED <<error, failed>>
    /\ UNCHANGED <<argv, repo, files, args, requests, issue_vec, slots, written,
                   deviated, lastGet, run, snapshot>>

\* One iteration of the write loop: serialize(&args.flag_path, &mut reg, &data)?.
Serialize ==
    /\ pc = "write"
    /\ \E fault \in {"none", "create", "write"} :
        LET data == IssueWithComments(issue_vec[cursor], slots[cursor].value)
            done == serialize(target, files, data, fault)
        IN /\ files' = done.files
           /\ written' = written \o done.created
           /\ deviated' = (deviated \/ fault # "none")
           /\ IF ~done.result.ok
              THEN /\ Fail("write", done.result)
                   /\ UNCHANGED cursor
              ELSE /\ cursor' = cursor + 1
                   /\ IF cursor = Len(issue_vec)
                      THEN pc' = "exit" /\ exit' = 0
                      ELSE pc' = "write" /\ exit' = exit
                   /\ UNCHANGED <<error, failed>>
    /\ UNCHANGED <<argv, repo, target, args, requests, issue_vec, slots, lastGet,
                   run, snapshot>>

\* The same command is run again after a successful export.
Rerun ==
    /\ pc = "exit" /\ exit = 0 /\ run < MaxRuns
    /\ run' = run + 1
    /\ snapshot' = [files |-> files, target |-> target]
    /\ pc' = "start" /\ args' = None /\ requests' = <<>> /\ issue_vec' = <<>>
    /\ slots' = <<>> /\ cursor' = 0 /\ written' = <<>> /\ exit' = None
    /\ error' = Ok(None) /\ failed' = {} /\ deviated' = FALSE /\ lastGet' = <<>>
    /\ UNCHANGED <<argv, repo, target, files>>

Next ==
    \/ Start
    \/ ResolveResponse
    \/ \E i \in 1..MaxIssues : CommentResponse(i)
    \/ Mkdir
    \/ Serialize
    \/ Rerun

Spec == Init /\ [][Next]_vars

\* ------------------------------------------------------------ properties
Succeeded == pc = "exit" /\ exit = 0
Parsed == pc # "start" /\ "args" \notin failed
\* The first request was answered with the issue set.
Resolved == Parsed /\ pc # "resolve" /\ "resolve" \notin failed
InFlight == Cardinality({i \in DOMAIN slots : ~slots[i].done})
IsListUrl(u) == Len(u) = 7 /\ u[6] = "/issues?state="
IsIssueUrl(u) == Len(u) = 7 /\ u[6] = "/issues/"
DistinctNumbers ==
    \A j, k \in DOMAIN issue_vec : j # k => issue_vec[j].number # issue_vec[k].number
ExpectedNames == {issue_to_filename(FlagPath, issue_vec[k]) : k \in DOMAIN issue_vec}

\* C1: during the comment-fetch fan-out, at most 8 comment requests are started
\* and not yet completed, in every reachable state and for every number of issues.
C1_AtMostEightInFlight == InFlight <= 8

\* C2: once the comment fetch of any issue has failed, the run has ended in
\* error, and it has created no file and left the output path as it found it.
C2_FailFast ==
    "comments" \in failed =>
        /\ pc = "exit" /\ exit = 1 /\ ~error.ok
        /\ written = <<>>
        /\ files = snapshot.files /\ target = snapshot.target

\* A comment fetch of one issue among several failed with a non-success status.
C2_Witness ==
    /\ "comments" \in failed
    /\ Len(issue_vec) > 1
    /\ ~lastGet[1].resp.transport_error /\ lastGet[1].resp.status = 404

\* C3: with an issue number in the query, the one request that resolves the
\* issue set goes to the single-issue endpoint whatever --state is, no request
\* goes to the list endpoint, and the set is that one issue; without an issue
\* number the request goes to the list endpoint with the given state and the
\* set is the repository's issues of that state, in the remote's order.
C3_IssueSetResolution ==
    Parsed =>
        IF args.arg_issue.some
        THEN /\ requests[1] = <<API_ENDPOINT, "/repos/", args.arg_username, "/",
                                args.arg_repo, "/issues/", Decimal(args.arg_issue.value)>>
             /\ Cardinality({k \in DOMAIN requests : IsIssueUrl(requests[k])}) = 1
             /\ \A k \in DOMAIN requests : ~IsListUrl(requests[k])
             /\ Resolved =>
                  /\ Len(issue_vec) = 1
                  /\ issue_vec[1].number = args.arg_issue.value
                  /\ \E k \in DOMAIN repo :
                        /\ repo[k] = issue_vec[1]
                        /\ \A h \in 1..(k - 1) : repo[h].number # issue_vec[1].number
        ELSE /\ requests[1] = <<API_ENDPOINT, "/repos/", args.arg_username, "/",
                                args.arg_repo, "/issues?state=",
                                StateDisplay(args.flag_state)>>
             /\ \A k \in DOMAIN requests : ~IsIssueUrl(requests[k])
             /\ Cardinality({k \in DOMAIN requests : IsListUrl(requests[k])}) = 1
             /\ Resolved =>
                  issue_vec = SelectSeq(repo, LAMBDA i :
                                  args.flag_state = "All"
                                  \/ (args.flag_state = "Open" /\ i.state = "open")
                                  \/ (args.flag_state = "Closed" /\ i.state = "closed"))

\* The query names an open issue and --state is closed: the issue is the set.
C3_Witness ==
    /\ pc = "mkdir"
    /\ args.arg_issue.some /\ args.flag_state = "Closed"
    /\ Len(issue_vec) = 1 /\ issue_vec[1].state = "open"

\* C4: get fails with RequestFailed carrying the body as text for every
\* response with a non-success status, validly encoded or not; for a success
\* status it returns the decoded value, or fails with the chained Json error
\* when the body does not decode into T.
C4_GetOutcome ==
    \A k \in DOMAIN lastGet :
        LET g == lastGet[k] IN
        ~g.resp.transport_error =>
            IF ~is_success(g.resp.status)
            THEN /\ ~g.result.ok
                 /\ g.result.kind = "Request"
                 /\ (IsDoc(g.resp.chunk) \/ ValidUtf8(g.resp.chunk.raw))
                        => g.result.detail = g.resp.chunk
            ELSE IF IsDoc(g.resp.chunk) /\ g.resp.chunk.doc = g.T
                 THEN g.result.ok /\ g.result.value = g.resp.chunk.value
                 ELSE ~g.result.ok /\ g.result.kind = "Json" /\ g.result.chained

\* Position of the first occurrence of c in s, Len(s) + 1 when there is none.
FirstPos(s, c) ==
    IF \E i \in DOMAIN s : s[i] = c
    THEN CHOOSE i \in DOMAIN s : s[i] = c /\ \A j \in 1..(i - 1) : s[j] # c
    ELSE Len(s) + 1
Count(s, c) == Cardinality({i \in DOMAIN s : s[i] = c})
AllDigits(s) == Len(s) > 0 /\ \A i \in DOMAIN s : s[i] \in Range(DigitSeq)
\* The parts of a query string: owner before the "/", then repo, then the
\* issue part after the first "#" that follows.
QOwner(q) == SubSeq(q, 1, FirstPos(q, "/") - 1)
QRest(q) == SubSeq(q, FirstPos(q, "/") + 1, Len(q))
QRepo(q) == SubSeq(QRest(q), 1, FirstPos(QRest(q), "#") - 1)
QHasIssue(q) == Count(QRest(q), "#") > 0
QIssue(q) == SubSeq(QRest(q), FirstPos(QRest(q), "#") + 1, Len(QRest(q)))
Malformed(q) ==
    \/ Count(q, "/") # 1
    \/ QOwner(q) = <<>>
    \/ QRepo(q) = <<>>
    \/ QHasIssue(q) /\ ~AllDigits(QIssue(q))

\* C5: with the token set and a valid --state, `owner/repo` with non-empty owner
\* and repo parses with no issue number, `owner/repo#N` with N a positive
\* integer parses with issue number N, and every malformed query (no "/", more
\* than one "/", non-numeric issue part, empty owner, empty repo) makes the
\* process exit with status 1 before any request.
C5_QueryParsing ==
    (pc # "start" /\ argv.token # None /\ DocoptState(argv.state).ok) =>
        LET q == argv.query IN
        IF Malformed(q)
        THEN pc = "exit" /\ exit = 1 /\ requests = <<>>
        ELSE /\ Parsed
             /\ args.arg_username = QOwner(q) /\ args.arg_repo = QRepo(q)
             /\ IF QHasIssue(q)
                THEN args.arg_issue.some /\ Decimal(args.arg_issue.value) = QIssue(q)
                ELSE ~args.arg_issue.some

\* C6: after a successful run over issues with pairwise distinct numbers, the
\* files created are exactly one per issue, no two issues share a path, each
\* path is <path>/<number padded to 3 digits or more>-<slug>.md, each file
\* holds its own issue, and no other file appeared.
C6_OneFilePerIssue ==
    (Succeeded /\ DistinctNumbers) =>
        /\ Len(written) = Len(issue_vec)
        /\ Cardinality(Range(written)) = Len(issue_vec)
        /\ DOMAIN files = DOMAIN snapshot.files \cup Range(written)
        /\ \A k \in DOMAIN issue_vec :
              LET name == written[k]
                  dir == SubSeq(name, 1, Len(FlagPath) + 1)
                  base == SubSeq(name, Len(FlagPath) + 2, Len(name) - 3)
                  num == SubSeq(base, 1, FirstPos(base, "-") - 1)
                  rest == SubSeq(base, FirstPos(base, "-") + 1, Len(base))
              IN /\ dir = FlagPath \o <<"/">>
                 /\ SubSeq(name, Len(name) - 2, Len(name)) = <<".", "m", "d">>
                 /\ Len(num) >= 3 /\ AllDigits(num)
                 /\ parse_usize(num).value = issue_vec[k].number
                 /\ (Len(num) > 3 => num[1] # "0")
                 /\ rest = slugify(issue_vec[k].title)
                 /\ files[name].title = issue_vec[k].title

\* A successful run over issues of distinct numbers, two of them with the same
\* slug and two of them with an empty slug.
C6_Witness ==
    /\ Succeeded /\ DistinctNumbers
    /\ \E j, k \in DOMAIN issue_vec :
          /\ j # k
          /\ slugify(issue_vec[j].title) = slugify(issue_vec[k].title)
          /\ slugify(issue_vec[j].title) = <<>>

\* mkdir has just returned success.
JustMadeDir ==
    \/ pc = "write" /\ cursor = 1
    \/ Succeeded /\ Len(issue_vec) = 0

\* C7: mkdir on an existing directory succeeds and leaves its files alone; it
\* succeeds only if the directory existed or was created, every other failed
\* creation ends the run in error, and then no file is written.
C7_EnsureDirectory ==
    /\ snapshot.target = "dir" => "mkdir" \notin failed
    /\ JustMadeDir => files = snapshot.files /\ snapshot.target \in {"dir", "absent"}
    /\ "mkdir" \in failed => pc = "exit" /\ exit = 1 /\ written = <<>>
    /\ snapshot.target \notin {"dir", "absent"} => written = <<>>

\* C8: a second run with the same remote responses and no storage fault never
\* fails, ends with status 0, creates only files that were already there, and
\* leaves the files and their contents as the first run left them.
C8_RerunIdempotent ==
    (run > 1 /\ ~deviated) =>
        /\ failed = {}
        /\ Range(written) \subseteq DOMAIN snapshot.files
        /\ pc = "exit" => exit = 0 /\ files = snapshot.files /\ target = snapshot.target

\* The second run ended after writing two files or more.
C8_Witness == run = 2 /\ Succeeded /\ ~deviated /\ Len(written) >= 2

\* C9: the exit status is 0 exactly when parsing, every request and decode, the
\* directory creation and every write succeeded; a failed step ends the run
\* with status 1 at once, no write is attempted without the directory, and no
\* request is sent twice.
C9_FatalErrors ==
    /\ pc = "exit" =>
          (exit = 0 <=> /\ Parsed /\ failed = {}
                        /\ Len(requests) = 1 + Len(issue_vec)
                        /\ \A i \in DOMAIN slots : slots[i].done
                        /\ target = "dir"
                        /\ Len(written) = Len(issue_vec))
    /\ failed # {} => pc = "exit" /\ exit = 1 /\ Cardinality(failed) = 1
    /\ "write" \in failed => target = "dir"
    /\ Parsed => /\ Len(requests) <= 1 + Len(issue_vec)
                 /\ \A k \in DOMAIN issue_vec : requests[1 + k] = issue_vec[k].comments_url

\* C10: whatever the order in which the comment fetches complete, there is one
\* join element per issue, and a completed element holds exactly the comments
\* the remote returned for that issue's own comments_url, in the remote's order.
C10_AggregateIntegrity ==
    pc \in {"fanout", "mkdir", "write"} =>
        /\ Len(slots) = Len(issue_vec)
        /\ \A i \in DOMAIN slots :
              slots[i].done => slots[i].value = RemoteComments(issue_vec[i].comments_url)

\* All fetches are done, the first issue's completed last, and the first two
\* issues have different comments.
C10_Witness ==
    /\ pc = "mkdir" /\ Len(issue_vec) >= 2
    /\ lastGet[1].result.ok
    /\ lastGet[1].result.value = slots[1].value
    /\ slots[1].value # slots[2].value
====
